---- MODULE Spec2Model ----
(***************************************************************************)
(* A model of the reverse proxy of src/main.rs: the redirect resolver      *)
(* (check_redirect) and the proxy pipeline (proxy_handler).                *)
(*                                                                         *)
(* Text is modelled as a sequence of one-character strings, a byte string  *)
(* as a sequence of byte tokens (an ASCII byte is written as its           *)
(* character, any other byte as "0xNN").  An Option is a sequence of       *)
(* length 0 (None) or 1 (Some).                                            *)
(***************************************************************************)
EXTENDS Integers, Sequences, FiniteSets, TLC

VARIABLES
    state,          \* AppState (l.21-27): webflow_url, prod_url, redirect_mode
    tasks,          \* the request tasks of this run (l.80)
    req,            \* per task: host, uri, method, headers, body (l.107-113)
    up,             \* per task: what the origin answers if the call succeeds
    pc,             \* per task: the await point proxy_handler is suspended at
    hops,           \* per task: how many redirects the client has followed
    body_read,      \* per task: body.collect() was awaited (l.126)
    sent,           \* per task: the upstream requests issued (l.147)
    resp_builder,   \* per task: resp_builder after the header copy (l.155-165)
    response,       \* per task: the response returned to the client
    outcome,        \* per task: the return statement the handler left by
    serving         \* the serving process is alive (l.80)

vars == <<state, tasks, req, up, pc, hops, body_read, sent, resp_builder,
          response, outcome, serving>>

----------------------------------------------------------------------------
(* Bounds of the model *)

NumTasks == 2
MaxHops == 2
MaxHostParts == 3
MaxHeaders == 2
MaxBodyParts == 3
MaxProdLen == 2

----------------------------------------------------------------------------
(* Text helpers *)

StartsWith(s, p) == Len(s) >= Len(p) /\ SubSeq(s, 1, Len(p)) = p

Contains(s, p) == \E i \in 1..(Len(s) - Len(p) + 1) : SubSeq(s, i, i + Len(p) - 1) = p

RECURSIVE Flatten(_)
Flatten(ss) == IF ss = <<>> THEN <<>> ELSE Head(ss) \o Flatten(Tail(ss))

SeqsUpTo(S, n) == UNION {[1..k -> S] : k \in 0..n}

Min(S) == CHOOSE x \in S : \A y \in S : x <= y

Www == <<"w", "w", "w", ".">>

Https == <<"h", "t", "t", "p", "s", ":", "/", "/">>

TextHtml == <<"t", "e", "x", "t", "/", "h", "t", "m", "l">>

----------------------------------------------------------------------------
(* Status codes *)

PERMANENT_REDIRECT == 308

BAD_REQUEST == 400

BAD_GATEWAY == 502

----------------------------------------------------------------------------
(* check_redirect *)

\* host.split(':').next(): the text before the first ':'
HostWithoutPort(host) ==
    LET colons == {i \in 1..Len(host) : host[i] = ":"}
    IN  IF colons = {} THEN host ELSE SubSeq(host, 1, Min(colons) - 1)

\* uri.query().map(|q| format!("?{}", q)).unwrap_or_default()
QueryString(uri) == IF uri.query = <<>> THEN <<>> ELSE <<"?">> \o uri.query[1]

\* strip_prefix("www.").unwrap_or(host)
StripPrefixWww(h) == IF StartsWith(h, Www) THEN SubSeq(h, Len(Www) + 1, Len(h)) ELSE h

RedirectTemporary(url) == [status_code |-> 307, location |-> url]

\* Redirect::permanent(uri)
RedirectPermanent(url) == [status_code |-> PERMANENT_REDIRECT, location |-> url]

check_redirect(host, uri, st) ==
    LET host_without_port == HostWithoutPort(host)
        is_www == StartsWith(host_without_port, Www)
        path == uri.path
        query == QueryString(uri)
    IN  IF st.redirect_mode = "Www" /\ ~is_www
        THEN <<RedirectPermanent(Https \o (Www \o host_without_port) \o path \o query)>>
        ELSE IF st.redirect_mode = "Root" /\ is_www
        THEN <<RedirectPermanent(Https \o StripPrefixWww(host_without_port) \o path \o query)>>
        ELSE <<>>

----------------------------------------------------------------------------
(* Responses *)

\* Redirect::into_response
RedirectIntoResponse(r) ==
    [status |-> r.status_code, headers |-> << <<"location", r.location>> >>, body |-> <<>>]

\* StatusCode::into_response, for Err(status)
StatusIntoResponse(code) == [status |-> code, headers |-> <<>>, body |-> <<>>]

IsRedirection(r) == r.status \in 300..399

----------------------------------------------------------------------------
(* Headers *)

\* str::to_lowercase on the header names of the model
ToLowercase(n) ==
    CASE n \in {"Host", "HOST"} -> "host"
      [] n \in {"Connection"} -> "connection"
      [] n \in {"Transfer-Encoding"} -> "transfer-encoding"
      [] n \in {"Content-Length"} -> "content-length"
      [] n \in {"Content-Encoding"} -> "content-encoding"
      [] n \in {"Content-Type"} -> "content-type"
      [] n \in {"Cookie"} -> "cookie"
      [] OTHER -> n

\* A HeaderMap holds its names in lower case, whatever the wire carried
RECURSIVE HeaderMapOf(_)
HeaderMapOf(wire) ==
    IF wire = <<>> THEN <<>>
    ELSE << <<ToLowercase(Head(wire)[1]), Head(wire)[2]>> >> \o HeaderMapOf(Tail(wire))

RequestBlocked == {"host", "connection", "transfer-encoding", "content-length"}

ResponseBlocked == {"transfer-encoding", "content-length", "connection", "content-encoding"}

RECURSIVE CopyHeaders(_, _)
CopyHeaders(headers, blocked) ==
    IF headers = <<>> THEN <<>>
    ELSE LET name_str == ToLowercase(Head(headers)[1])
         IN  (IF name_str \notin blocked THEN <<Head(headers)>> ELSE <<>>)
                 \o CopyHeaders(Tail(headers), blocked)

ForwardKeepingContentLength(headers) ==
    CopyHeaders(headers, RequestBlocked \ {"content-length"})

\* the loop over headers.iter() building the upstream request
ForwardRequestHeaders(headers) == CopyHeaders(headers, RequestBlocked)

RelayKeepingContentEncoding(headers) ==
    CopyHeaders(headers, ResponseBlocked \ {"content-encoding"})

\* the loop over response.headers().iter() building the client response
RelayResponseHeaders(headers) == CopyHeaders(headers, ResponseBlocked)

----------------------------------------------------------------------------
(* The body rewrite *)

Quote == "\""

NonAsciiBytes == {"0xC3", "0xA9", "0xFF", "0xEF", "0xBF", "0xBD"}

\* String::from_utf8_lossy: 0xC3 0xA9 is U+00E9, 0xEF 0xBF 0xBD is U+FFFD, and
\* each maximal invalid part becomes one U+FFFD
RECURSIVE FromUtf8Lossy(_)
FromUtf8Lossy(bytes) ==
    IF bytes = <<>> THEN <<>>
    ELSE LET b == Head(bytes)
             n == Len(bytes)
             rest(k) == FromUtf8Lossy(SubSeq(bytes, k + 1, n))
         IN  IF b \notin NonAsciiBytes THEN <<b>> \o rest(1)
             ELSE IF b = "0xC3" /\ n >= 2 /\ bytes[2] = "0xA9" THEN <<"U+00E9">> \o rest(2)
             ELSE IF b = "0xEF" /\ n >= 2 /\ bytes[2] = "0xBF"
             THEN IF n >= 3 /\ bytes[3] = "0xBD" THEN <<"U+FFFD">> \o rest(3)
                  ELSE <<"U+FFFD">> \o rest(2)
             ELSE <<"U+FFFD">> \o rest(1)

\* String::into_bytes
RECURSIVE IntoBytes(_)
IntoBytes(text) ==
    IF text = <<>> THEN <<>>
    ELSE (CASE Head(text) = "U+00E9" -> <<"0xC3", "0xA9">>
            [] Head(text) = "U+FFFD" -> <<"0xEF", "0xBF", "0xBD">>
            [] OTHER -> <<Head(text)>>) \o IntoBytes(Tail(text))

\* the literal head of the pattern data-wf-domain="[^"]*"
MarkerHead ==
    <<"d", "a", "t", "a", "-", "w", "f", "-", "d", "o", "m", "a", "i", "n", "=", "\"">>

\* the end of the match of data-wf-domain="[^"]*" that starts at i, 0 if none does
MatchEndAt(s, i) ==
    IF i + Len(MarkerHead) - 1 <= Len(s) /\ SubSeq(s, i, i + Len(MarkerHead) - 1) = MarkerHead
    THEN LET closing == {j \in (i + Len(MarkerHead))..Len(s) : s[j] = Quote}
         IN  IF closing = {} THEN 0 ELSE Min(closing)
    ELSE 0

Letters == {"a", "c", "d", "e", "f", "h", "i", "l", "m", "n", "o", "p", "q", "s", "t", "w", "x"}

Digits == {"0", "1", "8"}

\* the characters of a capture-group name in a replacement string
WordChars == Letters \cup Digits \cup {"_"}

\* the length of the run of name characters rep starts with
RECURSIVE WordRun(_)
WordRun(rep) ==
    IF rep # <<>> /\ Head(rep) \in WordChars THEN 1 + WordRun(Tail(rep)) ELSE 0

\* what $name stands for: the pattern has no group but group 0, the whole match
CaptureValue(name, m) ==
    IF \A k \in 1..Len(name) : name[k] = "0" THEN m ELSE <<>>

\* the replacement string as regex expands it for one match m: $$ is a '$',
\* $name the capture group (the longest name), any other '$' stays.  The ${name}
\* form needs a '{', which no production domain of the model contains.
RECURSIVE Expand(_, _)
Expand(rep, m) ==
    IF rep = <<>> THEN <<>>
    ELSE IF Head(rep) # "$" THEN <<Head(rep)>> \o Expand(Tail(rep), m)
    ELSE IF Len(rep) >= 2 /\ rep[2] = "$" THEN <<"$">> \o Expand(SubSeq(rep, 3, Len(rep)), m)
    ELSE LET n == WordRun(Tail(rep))
         IN  IF n = 0 THEN <<"$">> \o Expand(Tail(rep), m)
             ELSE CaptureValue(SubSeq(rep, 2, n + 1), m)
                      \o Expand(SubSeq(rep, n + 2, Len(rep)), m)

\* Regex::replace_all(text, rep), rep a String: the matches from left to right,
\* none overlapping, each replaced by the expanded replacement
RECURSIVE ReplaceFrom(_, _, _)
ReplaceFrom(s, last, rep) ==
    LET starts == {i \in last..Len(s) : MatchEndAt(s, i) # 0}
    IN  IF starts = {} THEN SubSeq(s, last, Len(s))
        ELSE LET i == Min(starts)
                 e == MatchEndAt(s, i)
             IN  SubSeq(s, last, i - 1) \o Expand(rep, SubSeq(s, i, e))
                     \o ReplaceFrom(s, e + 1, rep)

ReplaceAll(s, rep) == ReplaceFrom(s, 1, rep)

\* format!(r#"data-wf-domain="{}""#, state.prod_url)
Replacement(prod_url) == MarkerHead \o prod_url \o <<Quote>>

\* the branch taken when the content type names HTML
RewriteBody(body_bytes, prod_url) ==
    IntoBytes(ReplaceAll(FromUtf8Lossy(body_bytes), Replacement(prod_url)))

\* HeaderValue::to_str: only visible ASCII reads as text
ToStr(v) == IF \E k \in 1..Len(v) : v[k] \in NonAsciiBytes THEN <<>> ELSE <<v>>

\* headers_ref().and_then(get("content-type")).and_then(to_str().ok()).unwrap_or("")
ContentTypeOf(headers) ==
    LET at == {k \in 1..Len(headers) : headers[k][1] = "content-type"}
    IN  IF at = {} THEN <<>>
        ELSE LET t == ToStr(headers[Min(at)][2]) IN IF t = <<>> THEN <<>> ELSE t[1]

ModifiedBodyAlways(builder, body_bytes, prod_url) == RewriteBody(body_bytes, prod_url)

\* the choice between the rewritten body and the upstream bytes
ModifiedBody(builder, body_bytes, prod_url) ==
    IF Contains(ContentTypeOf(builder.headers), TextHtml)
    THEN RewriteBody(body_bytes, prod_url)
    ELSE body_bytes

----------------------------------------------------------------------------
(* proxy_handler, one action per stretch between two await points *)

TargetUrlDroppingEmptyQuery(st, uri) ==
    st.webflow_url \o uri.path
        \o (IF uri.query \in {<<>>, << <<>> >>} THEN <<>> ELSE <<"?">> \o uri.query[1])

\* format!("{}{}{}", state.webflow_url, path, query)
TargetUrl(st, uri) == st.webflow_url \o uri.path \o QueryString(uri)

\* the request handed to send(): the method, the URL, the headers that pass the
\* filter, and the body when it is not empty
OutboundRequest(st, r) ==
    [method |-> r.method,
     url |-> TargetUrl(st, r.uri),
     headers |-> ForwardRequestHeaders(HeaderMapOf(r.headers)),
     body |-> IF r.body # <<>> THEN <<r.body>> ELSE <<>>]

\* Response::builder().status(..) and the header copy
ResponseBuilder(u) ==
    [status |-> u.status, headers |-> RelayResponseHeaders(HeaderMapOf(u.headers))]

Finish(i, resp, how) ==
    /\ response' = [response EXCEPT ![i] = <<resp>>]
    /\ outcome' = [outcome EXCEPT ![i] = how]
    /\ pc' = [pc EXCEPT ![i] = "done"]

BeginWithoutCheck(i) ==
    /\ pc[i] = "idle"
    /\ pc' = [pc EXCEPT ![i] = "collect"]
    /\ UNCHANGED <<state, tasks, req, up, hops, body_read, sent, resp_builder,
                   response, outcome, serving>>

\* entry: the redirect check, then the target URL, up to body.collect().await
Begin(i) ==
    /\ pc[i] = "idle"
    /\ LET redirect == check_redirect(req[i].host, req[i].uri, state)
       IN  IF redirect # <<>>
           THEN Finish(i, RedirectIntoResponse(redirect[1]), "redirect")
           ELSE /\ pc' = [pc EXCEPT ![i] = "collect"]
                /\ UNCHANGED <<response, outcome>>
    /\ UNCHANGED <<state, tasks, req, up, hops, body_read, sent, resp_builder, serving>>

\* body.collect() gave the body: build the upstream request and send it
CollectOk(i) ==
    /\ pc[i] = "collect"
    /\ body_read' = [body_read EXCEPT ![i] = TRUE]
    /\ sent' = [sent EXCEPT ![i] = Append(@, OutboundRequest(state, req[i]))]
    /\ pc' = [pc EXCEPT ![i] = "send"]
    /\ UNCHANGED <<state, tasks, req, up, hops, resp_builder, response, outcome, serving>>

\* body.collect() failed
CollectErr(i) ==
    /\ pc[i] = "collect"
    /\ body_read' = [body_read EXCEPT ![i] = TRUE]
    /\ Finish(i, StatusIntoResponse(BAD_REQUEST), "bad_request")
    /\ UNCHANGED <<state, tasks, req, up, hops, sent, resp_builder, serving>>

\* send() gave the upstream response: copy status and headers
SendOk(i) ==
    /\ pc[i] = "send"
    /\ resp_builder' = [resp_builder EXCEPT ![i] = <<ResponseBuilder(up[i])>>]
    /\ pc' = [pc EXCEPT ![i] = "bytes"]
    /\ UNCHANGED <<state, tasks, req, up, hops, body_read, sent, response, outcome, serving>>

SendErrExits(i) ==
    /\ pc[i] = "send"
    /\ serving' = FALSE
    /\ pc' = [pc EXCEPT ![i] = "done"]
    /\ outcome' = [outcome EXCEPT ![i] = "send_failed"]
    /\ UNCHANGED <<state, tasks, req, up, hops, body_read, sent, resp_builder, response>>

\* send() failed at the transport level
SendErr(i) ==
    /\ pc[i] = "send"
    /\ Finish(i, StatusIntoResponse(BAD_GATEWAY), "send_failed")
    /\ UNCHANGED <<state, tasks, req, up, hops, body_read, sent, resp_builder, serving>>

\* response.bytes() gave the body: rewrite it if HTML, and respond
BytesOk(i) ==
    /\ pc[i] = "bytes"
    /\ LET builder == resp_builder[i][1]
       IN  Finish(i, [status |-> builder.status,
                      headers |-> builder.headers,
                      body |-> ModifiedBody(builder, up[i].body, state.prod_url)],
                  "relayed")
    /\ UNCHANGED <<state, tasks, req, up, hops, body_read, sent, resp_builder, serving>>

\* response.bytes() failed
BytesErr(i) ==
    /\ pc[i] = "bytes"
    /\ Finish(i, StatusIntoResponse(BAD_GATEWAY), "bytes_failed")
    /\ UNCHANGED <<state, tasks, req, up, hops, body_read, sent, resp_builder, serving>>

----------------------------------------------------------------------------
(* The client *)

\* the host of an https URL: what lies between "https://" and the path
UrlHost(url) ==
    LET rest == SubSeq(url, Len(Https) + 1, Len(url))
        stops == {k \in 1..Len(rest) : rest[k] \in {"/", "?", "#"}}
    IN  IF stops = {} THEN rest ELSE SubSeq(rest, 1, Min(stops) - 1)

LocationOf(r) == r.headers[1][2]

\* the client follows a redirect: the same request, sent to the target's host
FollowRedirect(i) ==
    /\ pc[i] = "done"
    /\ outcome[i] = "redirect"
    /\ hops[i] < MaxHops
    /\ req' = [req EXCEPT ![i].host = UrlHost(LocationOf(response[i][1]))]
    /\ hops' = [hops EXCEPT ![i] = @ + 1]
    /\ pc' = [pc EXCEPT ![i] = "idle"]
    /\ response' = [response EXCEPT ![i] = <<>>]
    /\ outcome' = [outcome EXCEPT ![i] = "none"]
    /\ UNCHANGED <<state, tasks, up, body_read, sent, resp_builder, serving>>

Next ==
    \/ \E i \in tasks : Begin(i)
    \/ \E i \in tasks : CollectOk(i)
    \/ \E i \in tasks : CollectErr(i)
    \/ \E i \in tasks : SendOk(i)
    \/ \E i \in tasks : SendErr(i)
    \/ \E i \in tasks : BytesOk(i)
    \/ \E i \in tasks : BytesErr(i)
    \/ \E i \in tasks : FollowRedirect(i)

----------------------------------------------------------------------------
(* The requests, configurations and upstream answers of the runs *)

Modes == {"Www", "Root"}

Origin == Https \o <<"o">>

BareHost == <<"a">>

WwwHost == Www \o <<"a">>

Ipv6Literal == <<"[", ":", ":", "1", "]">>

HostParts == {Www, <<"w">>, <<"a">>, <<".">>}

\* a Host value is a name or an IP literal, then possibly ':' and a port
HostNames == {Flatten(parts) : parts \in SeqsUpTo(HostParts, MaxHostParts)} \cup {Ipv6Literal}

Ports == {<<>>, <<":">>, <<":", "8">>}

Hosts == {name \o port : name \in HostNames, port \in Ports}

PlainUri == [path |-> <<"/">>, query |-> <<>>]

Paths == {<<"/">>, <<"/", "p">>, <<"/", "a", "/", ".", ".", "/", "p">>, <<"/", "/">>}

Queries == {<<>>, << <<>> >>, << <<"q", "=", "1">> >>, << <<"q", "=", "?">> >>}

Uris == [path : Paths, query : Queries]

Marker(value) == MarkerHead \o value \o <<Quote>>

JsonType == <<"j", "s", "o", "n">>

BasicHeaders == << <<"Host", BareHost>>, <<"Cookie", <<"c">>>> >>

HtmlAnswer ==
    [status |-> 200,
     headers |-> << <<"Content-Type", TextHtml>>, <<"Content-Length", <<"8">>>> >>,
     body |-> <<"x">> \o Marker(<<"s">>)]

PlainRequests ==
    [host : {BareHost, WwwHost}, uri : {PlainUri}, method : {"GET"},
     headers : {BasicHeaders}, body : {<<>>, <<"x">>}]

PlainState == [webflow_url |-> Origin, prod_url |-> <<"p">>, redirect_mode |-> "Www"]

RequestHeaderSet ==
    {"Host", "HOST", "host", "Connection", "Transfer-Encoding", "content-length",
     "Cookie", "authorization"} \X {<<"u">>, <<"v">>}

ResponseHeaderSet ==
    ({"Transfer-Encoding", "content-length", "Connection", "Content-Encoding",
      "content-encoding", "cache-control"} \X {<<"v">>})
    \cup ({"cache-control"} \X {<<"u">>})
    \cup ({"Content-Type", "content-type"}
              \X {TextHtml, JsonType, TextHtml \o <<";", "c">>, TextHtml \o <<"0xFF">>})

AnswerBodies == {<<>>, <<"x">> \o Marker(<<"s">>), Marker(<<"s">>) \o <<"0xFF">>}

BodyParts ==
    {Marker(<<"s">>), MarkerHead, <<Quote>>, <<"x">>, <<"0xFF">>, <<"0xC3">>, <<"0xC3", "0xA9">>}

Bodies == {Flatten(parts) : parts \in SeqsUpTo(BodyParts, MaxBodyParts)}

ProdUrls == SeqsUpTo({"a", ".", "$", "0"}, MaxProdLen) \ {<<>>}

\* every task has accepted its request and has not run yet
Fresh(T) ==
    /\ tasks = T
    /\ pc = [i \in T |-> "idle"]
    /\ hops = [i \in T |-> 0]
    /\ body_read = [i \in T |-> FALSE]
    /\ sent = [i \in T |-> <<>>]
    /\ resp_builder = [i \in T |-> <<>>]
    /\ response = [i \in T |-> <<>>]
    /\ outcome = [i \in T |-> "none"]
    /\ serving = TRUE

\* concurrent requests
Init ==
    /\ Fresh(1..NumTasks)
    /\ state \in [webflow_url : {Origin}, prod_url : {<<"p">>}, redirect_mode : Modes]
    /\ req \in [1..NumTasks -> PlainRequests]
    /\ up = [i \in 1..NumTasks |-> HtmlAnswer]

\* one request, any host
InitRedirect ==
    /\ Fresh({1})
    /\ state \in [webflow_url : {Origin}, prod_url : {<<"p">>}, redirect_mode : Modes]
    /\ req \in [{1} -> [host : Hosts, uri : {PlainUri, [path |-> <<"/", "p">>, query |-> << <<"q", "=", "1">> >>]},
                        method : {"GET"}, headers : {BasicHeaders}, body : {<<>>}]]
    /\ up = [i \in {1} |-> HtmlAnswer]

\* one request, any path and query
InitUrl ==
    /\ Fresh({1})
    /\ state \in [webflow_url : {Origin, Origin \o <<"/">>}, prod_url : {<<"p">>}, redirect_mode : Modes]
    /\ req \in [{1} -> [host : {BareHost, WwwHost}, uri : Uris, method : {"GET", "POST"},
                        headers : {BasicHeaders}, body : {<<>>, <<"x">>}]]
    /\ up = [i \in {1} |-> HtmlAnswer]

\* one request, any inbound headers
InitRequest ==
    /\ Fresh({1})
    /\ state = PlainState
    /\ req \in [{1} -> [host : {BareHost, WwwHost}, uri : {PlainUri}, method : {"GET"},
                        headers : SeqsUpTo(RequestHeaderSet, MaxHeaders), body : {<<"x">>}]]
    /\ up = [i \in {1} |-> HtmlAnswer]

\* one request, any upstream headers
InitResponse ==
    /\ Fresh({1})
    /\ state = PlainState
    /\ req \in [{1} -> [host : {BareHost, WwwHost}, uri : {PlainUri}, method : {"GET"},
                        headers : {BasicHeaders}, body : {<<>>}]]
    /\ up \in [{1} -> [status : {200, 404}, headers : SeqsUpTo(ResponseHeaderSet, MaxHeaders),
                       body : AnswerBodies]]

\* one request, any HTML body and production domain
InitRewrite ==
    /\ Fresh({1})
    /\ state \in [webflow_url : {Origin}, prod_url : ProdUrls, redirect_mode : {"Www"}]
    /\ req \in [{1} -> [host : {BareHost, WwwHost}, uri : {PlainUri}, method : {"GET"},
                        headers : {BasicHeaders}, body : {<<>>}]]
    /\ up \in [{1} -> [status : {200},
                       headers : {<< <<"content-type", TextHtml \o <<";", "c">>>> >>},
                       body : Bodies]]

Spec == Init /\ [][Next]_vars

SpecRedirect == InitRedirect /\ [][Next]_vars

SpecUrl == InitUrl /\ [][Next]_vars

SpecRequest == InitRequest /\ [][Next]_vars

SpecResponse == InitResponse /\ [][Next]_vars

SpecRewrite == InitRewrite /\ [][Next]_vars

----------------------------------------------------------------------------
(* Properties *)

Max(S) == CHOOSE x \in S : \A y \in S : y <= x

Location(i) == response[i][1].headers[1][2]

\* the path and query of the request of task i, as they appear in a URL
PathAndQuery(i) ==
    req[i].uri.path
        \o (IF req[i].uri.query # <<>> THEN <<"?">> \o req[i].uri.query[1] ELSE <<>>)

\* C1: a request on which the redirect resolver fires ends with the redirect
\* response; no upstream request is issued for it and its body is not read.
RedirectIsTerminal ==
    \A i \in tasks :
        /\ (pc[i] # "idle" /\ check_redirect(req[i].host, req[i].uri, state) # <<>>)
               => /\ pc[i] = "done"
                  /\ outcome[i] = "redirect"
                  /\ IsRedirection(response[i][1])
        /\ outcome[i] = "redirect" => (sent[i] = <<>> /\ ~body_read[i])

RedirectedWhileOtherProxied ==
    \E i, j \in tasks : outcome[i] = "redirect" /\ sent[i] = <<>> /\ sent[j] # <<>>

\* the host with a trailing ':port' removed: the port is what follows the last ':'
\* when that is digits only
TrailingPortRemoved(host) ==
    LET colons == {k \in 1..Len(host) : host[k] = ":"}
    IN  IF colons = {} THEN host
        ELSE IF \A k \in (Max(colons) + 1)..Len(host) : host[k] \in Digits
        THEN SubSeq(host, 1, Max(colons) - 1)
        ELSE host

\* C2: with h the host without its trailing ':port' and is_www = h starts with
\* "www.", the request is redirected exactly when (Www and not is_www), to
\* https://www.<h><path>[?query], or (Root and is_www), to
\* https://<h without its leading www.><path>[?query]; otherwise it is proxied.
DecisionTable ==
    \A i \in tasks :
        pc[i] # "idle" =>
            LET h == TrailingPortRemoved(req[i].host)
                is_www == StartsWith(h, Www)
            IN  IF state.redirect_mode = "Www" /\ ~is_www
                THEN /\ outcome[i] = "redirect"
                     /\ Location(i) = Https \o Www \o h \o PathAndQuery(i)
                ELSE IF state.redirect_mode = "Root" /\ is_www
                THEN /\ outcome[i] = "redirect"
                     /\ Location(i) = Https \o SubSeq(h, 5, Len(h)) \o PathAndQuery(i)
                ELSE outcome[i] # "redirect"

\* C3: a request sent to the host of a redirect target is not redirected again.
RedirectIdempotent ==
    \A i \in tasks : (hops[i] >= 1 /\ pc[i] # "idle") => outcome[i] # "redirect"

IsBlocked(name, four) == ToLowercase(name) \in four

\* how many headers of hs carry the name n (in any case) and the value v
Count(hs, n, v) ==
    Cardinality({k \in 1..Len(hs) : ToLowercase(hs[k][1]) = ToLowercase(n) /\ hs[k][2] = v})

\* to is from without the headers named in four: none of the four, every other
\* header with its value as often as it came, and nothing else
Filtered(from, to, four) ==
    /\ \A k \in 1..Len(to) : ~IsBlocked(to[k][1], four)
    /\ \A k \in 1..Len(from) :
           ~IsBlocked(from[k][1], four)
               => Count(to, from[k][1], from[k][2]) = Count(from, from[k][1], from[k][2])
    /\ Len(to) = Cardinality({k \in 1..Len(from) : ~IsBlocked(from[k][1], four)})

\* C4: the headers sent upstream are the inbound headers minus host, connection,
\* transfer-encoding and content-length, compared case-insensitively.
UpstreamHeadersFiltered ==
    \A i \in tasks :
        \A k \in 1..Len(sent[i]) :
            Filtered(req[i].headers, sent[i][k].headers,
                     {"host", "connection", "transfer-encoding", "content-length"})

MixedCaseHostDropped ==
    \E i \in tasks :
        /\ sent[i] # <<>>
        /\ req[i].headers = << <<"HOST", <<"u">>>>, <<"Cookie", <<"v">>>> >>
        /\ sent[i][1].headers = << <<"cookie", <<"v">>>> >>

\* C5: the headers returned to the client are the upstream headers minus
\* transfer-encoding, content-length, connection and content-encoding.
ClientHeadersFiltered ==
    \A i \in tasks :
        outcome[i] = "relayed" =>
            Filtered(up[i].headers, response[i][1].headers,
                     {"transfer-encoding", "content-length", "connection", "content-encoding"})

ContentEncodingDropped ==
    \E i \in tasks :
        /\ outcome[i] = "relayed"
        /\ up[i].headers = << <<"Content-Encoding", <<"v">>>>, <<"cache-control", <<"u">>>> >>
        /\ response[i][1].headers = << <<"cache-control", <<"u">>>> >>

\* the relayed content type names HTML: the first content-type header of the
\* response is readable text and contains "text/html"
NamesHtml(headers) ==
    \E k \in 1..Len(headers) :
        /\ headers[k][1] = "content-type"
        /\ \A j \in 1..(k - 1) : headers[j][1] # "content-type"
        /\ \A j \in 1..Len(headers[k][2]) : headers[k][2][j] \notin NonAsciiBytes
        /\ Contains(headers[k][2], TextHtml)

\* C6: when the relayed content type is absent, unreadable as text or without
\* "text/html", the body returned is the upstream body, byte for byte.
BodyUntouchedUnlessHtml ==
    \A i \in tasks :
        (outcome[i] = "relayed" /\ ~NamesHtml(response[i][1].headers))
            => response[i][1].body = up[i].body

UnreadableTypePassesMarker ==
    \E i \in tasks :
        /\ outcome[i] = "relayed"
        /\ up[i].headers = << <<"content-type", TextHtml \o <<"0xFF">>>> >>
        /\ Contains(up[i].body, MarkerHead)
        /\ response[i][1].body = up[i].body

\* t is a marker: data-wf-domain=" then a run without a quote, then a quote
IsMarker(t) ==
    /\ Len(t) > Len(MarkerHead)
    /\ StartsWith(t, MarkerHead)
    /\ t[Len(t)] = Quote
    /\ \A k \in (Len(MarkerHead) + 1)..(Len(t) - 1) : t[k] # Quote

\* the markers of s from position from on, left to right, as <<first, last>>
RECURSIVE Occurrences(_, _)
Occurrences(s, from) ==
    LET at == {k \in from..Len(s) : \E e \in k..Len(s) : IsMarker(SubSeq(s, k, e))}
    IN  IF at = {} THEN <<>>
        ELSE LET b == Min(at)
                 e == CHOOSE e \in b..Len(s) : IsMarker(SubSeq(s, b, e))
             IN  <<<<b, e>>>> \o Occurrences(s, e + 1)

\* the text of s outside its markers, piece by piece
Outside(s) ==
    LET occ == Occurrences(s, 1)
        n == Len(occ)
    IN  [k \in 1..(n + 1) |->
            SubSeq(s, IF k = 1 THEN 1 ELSE occ[k - 1][2] + 1,
                      IF k = n + 1 THEN Len(s) ELSE occ[k][1] - 1)]

\* C7: in an HTML body every marker is replaced by data-wf-domain="<production
\* domain>": the output has as many markers as the input, each carrying the
\* production domain literally, and the text outside the markers is the same.
\* (Text is the body as decoded: bytes that are no UTF-8 are not text.)
EveryMarkerRewritten ==
    \A i \in tasks :
        outcome[i] = "relayed" =>
            LET html == FromUtf8Lossy(up[i].body)
                out == FromUtf8Lossy(response[i][1].body)
                occ == Occurrences(out, 1)
            IN  /\ Len(occ) = Len(Occurrences(html, 1))
                /\ \A k \in 1..Len(occ) :
                       SubSeq(out, occ[k][1], occ[k][2])
                           = MarkerHead \o state.prod_url \o <<Quote>>
                /\ Outside(out) = Outside(html)

\* C8 as stated: every redirect response carries status 301.
RedirectStatusIs301 ==
    \A i \in tasks : outcome[i] = "redirect" => response[i][1].status = 301

\* C8: every redirect response carries status 308 (Permanent Redirect), in both
\* modes.
RedirectStatusIs308 ==
    \A i \in tasks : outcome[i] = "redirect" => response[i][1].status = 308

RedirectedToRoot ==
    \E i \in tasks :
        /\ outcome[i] = "redirect"
        /\ state.redirect_mode = "Root"
        /\ hops[i] = 0
        /\ req[i].host = WwwHost \o <<":", "8">>

Failed == {"send_failed", "bytes_failed"}

\* what of the run belongs to task j
Own(j) == <<req[j], up[j], pc[j], hops[j], body_read[j], sent[j], resp_builder[j],
            response[j], outcome[j]>>

\* C9: a request whose upstream call or upstream body read fails ends with a
\* bare 502 and keeps it; the process keeps serving; the failing step changes
\* nothing of any other request, and the requests that are relayed carry their
\* own upstream's status.
FailureContained ==
    /\ [](/\ serving
          /\ \A i \in tasks :
                 /\ outcome[i] \in Failed
                        => /\ pc[i] = "done"
                           /\ response[i] = <<[status |-> 502, headers |-> <<>>, body |-> <<>>]>>
                 /\ outcome[i] = "relayed" => response[i][1].status = up[i].status)
    /\ [][\A i \in tasks :
              /\ (outcome[i] \notin Failed /\ outcome'[i] \in Failed)
                     => \A j \in tasks \ {i} : Own(j)' = Own(j)
              /\ outcome[i] \in Failed => Own(i)' = Own(i)]_vars

FailedBesideRelayed ==
    \E i, j \in tasks :
        /\ outcome[i] = "send_failed"
        /\ outcome[j] = "relayed"
        /\ response[j][1].status = 200
        /\ serving

\* C10: the upstream URL of a proxied request is the origin, then the inbound
\* path, then '?' and the query when a query is present, nothing altered.
TargetUrlIsConcatenation ==
    \A i \in tasks :
        /\ pc[i] \in {"send", "bytes"} => Len(sent[i]) = 1
        /\ \A k \in 1..Len(sent[i]) :
               sent[i][k].url = state.webflow_url \o PathAndQuery(i)

EmptyQueryKept ==
    \E i \in tasks :
        /\ sent[i] # <<>>
        /\ req[i].uri = [path |-> <<"/", "a", "/", ".", ".", "/", "p">>, query |-> << <<>> >>]
        /\ sent[i][1].url = Origin \o <<"/", "a", "/", ".", ".", "/", "p", "?">>

====
